---- MODULE Spec2Model ----
(***************************************************************************)
(* A model of build_phase_lookup_table and PhaseLookupTable::apply_move    *)
(* (src/rs/scramble/puzzles/square1_phase_lookup_table.rs) and of the      *)
(* PruneTable trait (src/rs/_internal/search/prune_table_trait.rs).        *)
(*                                                                         *)
(* The builder is generic in the puzzle, the generator list, the phase     *)
(* mask and the validity checker.  The model draws these inputs from a     *)
(* bounded family of small permutation puzzles: a full pattern is a        *)
(* permutation of NumPieces pieces, a move is a permutation of the         *)
(* positions, the phase mask relabels pieces, the checker looks at the     *)
(* masked pattern only and the parity is taken over the pieces of the      *)
(* full pattern that are not "upper corner" wedges.                        *)
(*                                                                         *)
(* Indices (PhasePatternIndex, FlatMoveIndex) are zero-based as in the     *)
(* code; the containers are TLA+ sequences read through At.                *)
(***************************************************************************)
EXTENDS Integers, Sequences, FiniteSets, TLC

\* ---------------------------------------------------------------- bounds
NumPieces == 3
MaxMoves == 2
MaxSearchDepth == 3

\* The seeds a HashMap's RandomState may carry, abstracted to two values;
\* the first build gets the first one and a later build another one.
HashSeeds == {0, 1}
FirstSeed == CHOOSE seed \in HashSeeds : \A other \in HashSeeds : seed <= other

\* ------------------------------------------------------- typed containers
\* IndexedVec::at with a zero-based index.
At(vec, i) == vec[i + 1]

\* Option<PhasePatternIndex>.
None == [some |-> FALSE, value |-> 0]
Some(x) == [some |-> TRUE, value |-> x]

\* ------------------------------------------------- the puzzle (KPattern)
Pieces == 1..NumPieces
Positions == 1..NumPieces

\* kpuzzle.default_pattern(): every piece in its home position.
default_pattern == [i \in Positions |-> i]

\* KPattern::apply_transformation: position i receives what was at t[i].
apply_transformation(pattern, transformation) ==
    [i \in Positions |-> pattern[transformation[i]]]

\* The moves a generator list may be made of.
Rotation == [i \in Positions |-> IF i = NumPieces THEN 1 ELSE i + 1]
SwapFirst == [i \in Positions |-> IF i = 1 THEN 2 ELSE IF i = 2 THEN 1 ELSE i]
SwapLast ==
    [i \in Positions |-> IF i = NumPieces THEN NumPieces - 1
                         ELSE IF i = NumPieces - 1 THEN NumPieces ELSE i]
MovePool == {Rotation, SwapFirst, SwapLast}

\* search_generators.flat: a non-empty list of distinct moves, in generator
\* order.
GeneratorLists ==
    {g \in UNION {[1..n -> MovePool] : n \in 1..MaxMoves} :
        \A a \in DOMAIN g : \A b \in DOMAIN g : g[a] = g[b] => a = b}

\* Phase masks: the template keeps the identity of the first k pieces and
\* gives every other piece the label 0.  The last template belongs to a
\* puzzle with one more piece, a malformed mask/pattern pairing.
MaskKeeping(k) == [q \in Pieces |-> IF q <= k THEN q ELSE 0]
MismatchedMask == [q \in 1..(NumPieces + 1) |-> 0]
PhaseMasks == {MaskKeeping(k) : k \in 0..NumPieces} \cup {MismatchedMask}

\* Validity checkers: checker c rejects the masked patterns whose first
\* position holds label c; NoCheck accepts everything.
NoCheck == 0 - 1
Checkers == {NoCheck} \cup (0..NumPieces)

\* Wedge types: the set of pieces that are upper corner wedges.
WedgeTypes == {{}, {1}, {NumPieces}}

\* mask_pattern::mask: Ok(masked) or Err.
mask(full_pattern, mask_template) ==
    IF Len(mask_template) # Len(full_pattern)
    THEN [ok |-> FALSE, pattern |-> <<>>]
    ELSE [ok |-> TRUE,
          pattern |-> [i \in Positions |-> mask_template[full_pattern[i]]]]

\* PatternValidityChecker::is_valid on a masked pattern.
is_valid(c, masked_pattern) == masked_pattern[1] # c

\* basic_parity: the parity of the number of inversions of a list.
basic_parity(list) ==
    Cardinality({ij \in (1..Len(list)) \X (1..Len(list)) :
                    ij[1] < ij[2] /\ list[ij[1]] > list[ij[2]]}) % 2

\* wedge_parity: basic_parity of the pieces that are not upper corner wedges.
wedge_parity(upper, pattern) ==
    basic_parity(SelectSeq(pattern, LAMBDA q : q \notin upper))

\* ----------------------------------------------------------- LookupPattern
NoKey == [masked_pattern |-> <<>>, parity |-> 0]

\* try_new with the validity check made on the full pattern.
try_new_unmasked_check(full_pattern, mask_template, c, upper) ==
    LET m == mask(full_pattern, mask_template) IN
    IF ~m.ok THEN [tag |-> "Panic", key |-> NoKey]
    ELSE IF ~is_valid(c, full_pattern) THEN [tag |-> "None", key |-> NoKey]
    ELSE [tag |-> "Some",
          key |-> [masked_pattern |-> m.pattern,
                   parity |-> wedge_parity(upper, full_pattern)]]

\* try_new with a masking failure turned into None.
try_new_mask_error_none(full_pattern, mask_template, c, upper) ==
    LET m == mask(full_pattern, mask_template) IN
    IF ~m.ok THEN [tag |-> "None", key |-> NoKey]
    ELSE IF ~is_valid(c, m.pattern) THEN [tag |-> "None", key |-> NoKey]
    ELSE [tag |-> "Some",
          key |-> [masked_pattern |-> m.pattern,
                   parity |-> wedge_parity(upper, full_pattern)]]

\* try_new without the validity check.
try_new_unchecked(full_pattern, mask_template, c, upper) ==
    LET m == mask(full_pattern, mask_template) IN
    IF ~m.ok THEN [tag |-> "Panic", key |-> NoKey]
    ELSE [tag |-> "Some",
          key |-> [masked_pattern |-> m.pattern,
                   parity |-> wedge_parity(upper, full_pattern)]]

\* try_new with the parity taken from the masked pattern.
try_new_masked_parity(full_pattern, mask_template, c, upper) ==
    LET m == mask(full_pattern, mask_template) IN
    IF ~m.ok THEN [tag |-> "Panic", key |-> NoKey]
    ELSE IF ~is_valid(c, m.pattern) THEN [tag |-> "None", key |-> NoKey]
    ELSE [tag |-> "Some",
          key |-> [masked_pattern |-> m.pattern,
                   parity |-> wedge_parity(upper, m.pattern)]]

\* LookupPattern::try_new: "Panic" when masking fails, "None" when the
\* masked pattern is not valid, "Some" with the key otherwise.
try_new(full_pattern, mask_template, c, upper) ==
    LET m == mask(full_pattern, mask_template) IN
    IF ~m.ok THEN [tag |-> "Panic", key |-> NoKey]
    ELSE IF ~is_valid(c, m.pattern) THEN [tag |-> "None", key |-> NoKey]
    ELSE [tag |-> "Some",
          key |-> [masked_pattern |-> m.pattern,
                   parity |-> wedge_parity(upper, full_pattern)]]

\* ------------------------------------------------------------------ state
VARIABLES
    generators,          \* search_generators.flat
    phase_mask,          \* the phase mask template
    checker,             \* the validity checker C
    upper_wedges,        \* the puzzle's upper corner wedges
    hash_seed,           \* the RandomState of lookup_pattern_to_index
    pc,                  \* "pass1", "pass2", "done", "panic_mask", "panic_inconsistent"
    fringe,              \* VecDeque<(KPattern, usize)>
    index_to_lookup_pattern,
    lookup_pattern_to_index,
    exact_prune_table,
    index_to_representative_full_pattern,
    move_application_table,
    popped,              \* history: what each Pass 1 iteration popped and did
    previous_build,      \* the table the previous build returned
    prune_table          \* a PruneTable: the depth covered and the stored depths

inputs == <<generators, phase_mask, checker, upper_wedges>>
tables == <<index_to_lookup_pattern, lookup_pattern_to_index,
            exact_prune_table, index_to_representative_full_pattern>>
vars == <<generators, phase_mask, checker, upper_wedges, hash_seed, pc, fringe,
          index_to_lookup_pattern, lookup_pattern_to_index, exact_prune_table,
          index_to_representative_full_pattern, move_application_table,
          popped, previous_build, prune_table>>

EmptyMap == [k \in {} |-> 0]

\* LookupPattern::try_new::<C>(&pattern, phase_mask) with the build's inputs.
KeyOf(pattern) == try_new(pattern, phase_mask, checker, upper_wedges)

\* A frontier seeded with a pattern one move away from the default one.
InitialFringeMoved ==
    <<(<<apply_transformation(default_pattern, Rotation), 0>>)>>

\* fringe.push_back((kpuzzle.default_pattern(), 0))
InitialFringe == <<(<<default_pattern, 0>>)>>

\* The finished table as build_phase_lookup_table returns it.
PhaseLookupTable ==
    [index_to_lookup_pattern |-> index_to_lookup_pattern,
     lookup_pattern_to_index |-> lookup_pattern_to_index,
     move_application_table |-> move_application_table]

NoBuild ==
    [built |-> FALSE,
     seed |-> 0,
     table |-> [index_to_lookup_pattern |-> <<>>,
                lookup_pattern_to_index |-> EmptyMap,
                move_application_table |-> <<>>]]

\* PhaseLookupTable::apply_move
apply_move(table, phase_pattern_index, flat_move_index) ==
    At(At(table.move_application_table, phase_pattern_index), flat_move_index)

\* ------------------------------------------------------------- PruneTable
\* The trait fixes the operations only; the table modelled here is the one
\* the design describes: it stores the exact distance to the default pattern
\* of every pattern within the depth covered, and bounds every other pattern
\* from below by the depth covered plus one.
AllPatterns ==
    {p \in [Positions -> Pieces] :
        \A a \in Positions : \A b \in Positions : p[a] = p[b] => a = b}

\* PruneTable::new
PruneTableNew == [covered |-> 0, entries |-> [p \in {default_pattern} |-> 0]]

\* PruneTable::lookup
lookup(table, pattern) ==
    IF pattern \in DOMAIN table.entries
    THEN table.entries[pattern] ELSE table.covered + 1

\* The stored depths grown layer by layer from depth `from` to depth `to`:
\* a pattern one move before a pattern of the last layer joins the next one.
RECURSIVE Fill(_, _, _)
Fill(entries, from, to) ==
    IF from >= to THEN entries
    ELSE LET last == {p \in DOMAIN entries : entries[p] = from}
             layer == {q \in AllPatterns \ DOMAIN entries :
                          \E m \in 1..Len(generators) :
                              apply_transformation(q, generators[m]) \in last}
         IN  Fill([p \in DOMAIN entries \cup layer |->
                      IF p \in layer THEN from + 1 ELSE entries[p]],
                  from + 1, to)

\* A deepening that rebuilds the table to the requested depth and no further.
extend_to_exactly(table, search_depth, approximate_num_entries) ==
    [covered |-> search_depth,
     entries |-> Fill(PruneTableNew.entries, 0, search_depth)]

\* PruneTable::extend_for_search_depth: a depth already covered changes
\* nothing; approximate_num_entries only sizes the storage.
extend_for_search_depth(table, search_depth, approximate_num_entries) ==
    IF search_depth <= table.covered THEN table
    ELSE [covered |-> search_depth,
          entries |-> Fill(table.entries, table.covered, search_depth)]

\* The search driver deepens its prune table.
ExtendForSearchDepth(search_depth, approximate_num_entries) ==
    /\ prune_table' = extend_for_search_depth(prune_table, search_depth,
                                              approximate_num_entries)
    /\ UNCHANGED <<inputs, hash_seed, pc, fringe, tables, move_application_table,
                   popped, previous_build>>

PruneNext ==
    \E search_depth \in 0..MaxSearchDepth :
        \E approximate_num_entries \in {0, Cardinality(AllPatterns)} :
            ExtendForSearchDepth(search_depth, approximate_num_entries)

Init ==
    /\ generators \in GeneratorLists
    /\ phase_mask \in PhaseMasks
    /\ checker \in Checkers
    /\ upper_wedges \in WedgeTypes
    /\ hash_seed = FirstSeed
    /\ pc = "pass1"
    /\ fringe = InitialFringe
    /\ index_to_lookup_pattern = <<>>
    /\ lookup_pattern_to_index = EmptyMap
    /\ exact_prune_table = <<>>
    /\ index_to_representative_full_pattern = <<>>
    /\ move_application_table = <<>>
    /\ popped = <<>>
    /\ previous_build = NoBuild
    /\ prune_table = PruneTableNew

\* ----------------------------------------------------------------- Pass 1
\* Successors pushed with the depth of their parent.
SuccessorsSameDepth(full_pattern, depth) ==
    [m \in 1..Len(generators) |->
        <<apply_transformation(full_pattern, generators[m]), depth>>]

\* Successors of every move but the last.
SuccessorsButLast(full_pattern, depth) ==
    [m \in 1..(Len(generators) - 1) |->
        <<apply_transformation(full_pattern, generators[m]), depth + 1>>]

\* The successors one expansion pushes, in generator order.
Successors(full_pattern, depth) ==
    [m \in 1..Len(generators) |->
        <<apply_transformation(full_pattern, generators[m]), depth + 1>>]

\* Successors pushed to the front of the frontier.
PushAllFront(queue, successors) == successors \o queue

\* fringe.push_back for every successor.
PushAll(queue, successors) == queue \o successors

\* A key counts as present when some stored key has its masked pattern.
contains_masked_pattern(map, lookup_pattern) ==
    \E k \in DOMAIN map : k.masked_pattern = lookup_pattern.masked_pattern

\* lookup_pattern_to_index.contains_key(&lookup_pattern)
contains_key(map, lookup_pattern) == lookup_pattern \in DOMAIN map

\* lookup_pattern_to_index.get(&lookup_pattern)
get(map, lookup_pattern) ==
    IF lookup_pattern \in DOMAIN map THEN Some(map[lookup_pattern]) ELSE None

\* An insert that stores the length after the push.
InsertNextIndex(map, lookup_pattern, index) ==
    [k \in DOMAIN map \cup {lookup_pattern} |->
        IF k = lookup_pattern THEN index + 1 ELSE map[k]]

\* lookup_pattern_to_index.insert(lookup_pattern, PhasePatternIndex(index))
Insert(map, lookup_pattern, index) ==
    [k \in DOMAIN map \cup {lookup_pattern} |->
        IF k = lookup_pattern THEN index ELSE map[k]]

\* One iteration of `while let Some((full_pattern, depth)) = fringe.pop_front()`.
Pass1Step ==
    /\ pc = "pass1"
    /\ fringe # <<>>
    /\ LET full_pattern == Head(fringe)[1]
           depth == Head(fringe)[2]
           rest == Tail(fringe)
           r == KeyOf(full_pattern)
           index == Len(index_to_lookup_pattern)
           Log(outcome, i) ==
               Append(popped, [pattern |-> full_pattern, depth |-> depth,
                               outcome |-> outcome, index |-> i])
       IN  IF r.tag = "Panic"
           THEN /\ pc' = "panic_mask"
                /\ fringe' = rest
                /\ popped' = Log("panic", None)
                /\ UNCHANGED tables
           ELSE IF r.tag = "None"
           THEN /\ fringe' = rest
                /\ popped' = Log("invalid", None)
                /\ UNCHANGED <<pc, tables>>
           ELSE IF contains_key(lookup_pattern_to_index, r.key)
           THEN /\ fringe' = rest
                /\ popped' = Log("duplicate", get(lookup_pattern_to_index, r.key))
                /\ UNCHANGED <<pc, tables>>
           ELSE /\ index_to_lookup_pattern' = Append(index_to_lookup_pattern, r.key)
                /\ lookup_pattern_to_index' =
                       Insert(lookup_pattern_to_index, r.key, index)
                /\ exact_prune_table' = Append(exact_prune_table, depth)
                /\ fringe' = PushAll(rest, Successors(full_pattern, depth))
                /\ index_to_representative_full_pattern' =
                       Append(index_to_representative_full_pattern, full_pattern)
                /\ popped' = Log("assigned", Some(index))
                /\ UNCHANGED pc
    /\ UNCHANGED <<inputs, hash_seed, move_application_table, previous_build,
                   prune_table>>

\* The frontier is empty: the loop ends and Pass 2 starts.
Pass1Exit ==
    /\ pc = "pass1"
    /\ fringe = <<>>
    /\ pc' = "pass2"
    /\ UNCHANGED <<inputs, hash_seed, fringe, tables, move_application_table,
                   popped, previous_build, prune_table>>

\* ----------------------------------------------------------------- Pass 2
\* The reverse map walked instead: the order depends on the hash seed.
IterIndexHashOrder(seed, size, k) == IF seed = 0 THEN k ELSE size - 1 - k

\* The index the k-th iteration of `index_to_lookup_pattern.iter()` yields:
\* an IndexedVec is walked in index order whatever the hash seed is.
IterIndex(seed, size, k) == k

\* A row entry resolved from the representative itself, the move not applied.
RowEntryUnmoved(representative, transformation) ==
    LET r == KeyOf(representative)
    IN  IF r.tag = "Panic" THEN [fault |-> "panic_mask", entry |-> None]
        ELSE IF r.tag = "None" THEN [fault |-> "", entry |-> None]
        ELSE IF ~get(lookup_pattern_to_index, r.key).some
        THEN [fault |-> "panic_inconsistent", entry |-> None]
        ELSE [fault |-> "", entry |-> get(lookup_pattern_to_index, r.key)]

\* One entry of a row: the move applied to the representative, keyed and
\* resolved through the reverse map.
RowEntry(representative, transformation) ==
    LET new_representative == apply_transformation(representative, transformation)
        r == KeyOf(new_representative)
    IN  IF r.tag = "Panic" THEN [fault |-> "panic_mask", entry |-> None]
        ELSE IF r.tag = "None" THEN [fault |-> "", entry |-> None]
        ELSE IF ~get(lookup_pattern_to_index, r.key).some
        THEN [fault |-> "panic_inconsistent", entry |-> None]
        ELSE [fault |-> "", entry |-> get(lookup_pattern_to_index, r.key)]

\* One iteration of the outer loop of Pass 2: a whole row, or the first fault.
Pass2Row ==
    /\ pc = "pass2"
    /\ Len(move_application_table) < Len(index_to_lookup_pattern)
    /\ LET phase_pattern_index ==
               IterIndex(hash_seed, Len(index_to_lookup_pattern),
                         Len(move_application_table))
           representative ==
               At(index_to_representative_full_pattern, phase_pattern_index)
           entries == [m \in 1..Len(generators) |->
                          RowEntry(representative, generators[m])]
           faulty == {m \in 1..Len(generators) : entries[m].fault # ""}
           first == CHOOSE m \in faulty : \A o \in faulty : m <= o
       IN  IF faulty # {}
           THEN /\ pc' = entries[first].fault
                /\ UNCHANGED move_application_table
           ELSE /\ move_application_table' =
                       Append(move_application_table,
                              [m \in 1..Len(generators) |-> entries[m].entry])
                /\ UNCHANGED pc
    /\ UNCHANGED <<inputs, hash_seed, fringe, tables, popped, previous_build,
                   prune_table>>

\* Every index has its row: the table is returned.
Pass2Exit ==
    /\ pc = "pass2"
    /\ Len(move_application_table) = Len(index_to_lookup_pattern)
    /\ pc' = "done"
    /\ UNCHANGED <<inputs, hash_seed, fringe, tables, move_application_table,
                   popped, previous_build, prune_table>>

\* build_phase_lookup_table is called again with the same puzzle, generator
\* list, mask and checker; the new reverse map has a hash seed of its own.
Rebuild ==
    /\ pc = "done"
    /\ ~previous_build.built
    /\ previous_build' =
           [built |-> TRUE, seed |-> hash_seed, table |-> PhaseLookupTable]
    /\ hash_seed' \in HashSeeds \ {hash_seed}
    /\ pc' = "pass1"
    /\ fringe' = InitialFringe
    /\ index_to_lookup_pattern' = <<>>
    /\ lookup_pattern_to_index' = EmptyMap
    /\ exact_prune_table' = <<>>
    /\ index_to_representative_full_pattern' = <<>>
    /\ move_application_table' = <<>>
    /\ popped' = <<>>
    /\ UNCHANGED <<inputs, prune_table>>

Next ==
    \/ Pass1Step
    \/ Pass1Exit
    \/ Pass2Row
    \/ Pass2Exit
    \/ Rebuild

Spec == Init /\ [][Next]_vars

\* The build runs to its end: a sequential program that can take a step
\* takes it.
FairSpec == Spec /\ WF_vars(Next)

\* The prune table on its own, deepened by the search driver.
PruneSpec == Init /\ [][PruneNext]_vars

\* ------------------------------------------------------- shared vocabulary
Size == Len(index_to_lookup_pattern)
Indices == 0..(Size - 1)
FlatMoves == 0..(Len(generators) - 1)
Finished == pc = "done"
Representative(i) == At(index_to_representative_full_pattern, i)
Moved(pattern, m) == apply_transformation(pattern, At(generators, m))

\* The Pass 1 iterations that met a valid key.
Keyed == {n \in 1..Len(popped) : popped[n].outcome \in {"assigned", "duplicate"}}

\* ------------------------------------------------------------------- C1
\* The indices the non-absent entries of the rows of `from` lead to.
Targets(from) ==
    {apply_move(PhaseLookupTable, im[1], im[2]).value :
        im \in {x \in from \X FlatMoves :
                    apply_move(PhaseLookupTable, x[1], x[2]).some}}

\* Breadth-first distances from index 0 over the transition table, layer by
\* layer: dist maps the indices found so far to their distance.
RECURSIVE Distances(_, _, _)
Distances(dist, layer, d) ==
    IF layer = {} THEN dist
    ELSE LET next == Targets(layer) \ DOMAIN dist
         IN  Distances([j \in DOMAIN dist \cup next |->
                           IF j \in next THEN d + 1 ELSE dist[j]],
                       next, d + 1)

ShortestPaths == Distances([j \in {0} |-> 0], {0}, 0)

\* C1: in the finished build the depth Pass 1 recorded for every index is the
\* length of a shortest path to it from index 0 over the non-absent entries
\* of the transition table.
C1_ExactDepth ==
    (Finished /\ Size > 0) =>
        LET shortest == ShortestPaths IN
        /\ DOMAIN shortest = Indices
        /\ \A i \in Indices : At(exact_prune_table, i) = shortest[i]

\* A finished build in which some key at depth 2 or more was also met again
\* on a strictly longer path.
C1_Witness ==
    /\ Finished
    /\ \E n \in Keyed :
          /\ popped[n].outcome = "duplicate"
          /\ At(exact_prune_table, popped[n].index.value) >= 2
          /\ popped[n].depth > At(exact_prune_table, popped[n].index.value)

\* ------------------------------------------------------------------- C2
\* C2: every non-absent entry (i, m) of the finished table names the index
\* whose stored key is the key of the representative of i with m applied.
C2_TransitionConsistency ==
    Finished =>
        \A i \in Indices : \A m \in FlatMoves :
            apply_move(PhaseLookupTable, i, m).some =>
                LET r == KeyOf(Moved(Representative(i), m)) IN
                /\ r.tag = "Some"
                /\ apply_move(PhaseLookupTable, i, m).value \in Indices
                /\ At(index_to_lookup_pattern,
                      apply_move(PhaseLookupTable, i, m).value) = r.key

\* A finished table with an entry that leads to another index.
C2_Witness ==
    /\ Finished
    /\ \E i \in Indices : \E m \in FlatMoves :
          /\ apply_move(PhaseLookupTable, i, m).some
          /\ apply_move(PhaseLookupTable, i, m).value # i

\* ------------------------------------------------------------------- C3
\* C3: an entry (i, m) of the finished table is absent exactly when the
\* representative of i with m applied, masked, is rejected by the checker.
C3_AbsenceCorrectness ==
    Finished =>
        \A i \in Indices : \A m \in FlatMoves :
            (~apply_move(PhaseLookupTable, i, m).some) <=>
                ~is_valid(checker,
                          mask(Moved(Representative(i), m), phase_mask).pattern)

\* A finished table with an absent entry and a non-absent one.
C3_Witness ==
    /\ Finished
    /\ \E i \in Indices : \E m \in FlatMoves :
          ~apply_move(PhaseLookupTable, i, m).some
    /\ \E i \in Indices : \E m \in FlatMoves :
          apply_move(PhaseLookupTable, i, m).some

\* ------------------------------------------------------------------- C4
\* C4: the build never stops with "Inconsistent pattern enumeration".
C4_NoInconsistentEnumeration == pc # "panic_inconsistent"

\* Pass 2 has resolved a valid key through the reverse map.
C4_Witness ==
    /\ pc = "pass2"
    /\ \E k \in 1..Len(move_application_table) :
          \E m \in 1..Len(generators) : move_application_table[k][m].some

\* ------------------------------------------------------------------- C5
\* One more move from the patterns of S; with valid_only, only to patterns
\* whose key is valid.
RECURSIVE Closure(_, _)
Closure(S, valid_only) ==
    LET step == {Moved(p, m) : p \in S, m \in FlatMoves}
        next == S \cup {p \in step : valid_only => KeyOf(p).tag = "Some"}
    IN  IF next = S THEN S ELSE Closure(next, valid_only)

\* The full patterns a sequence of generator moves reaches from the default.
Reachable == Closure({default_pattern}, FALSE)

\* Those reached along valid patterns only, the default and the end included.
ValidReachable ==
    IF KeyOf(default_pattern).tag = "Some"
    THEN Closure({default_pattern}, TRUE) ELSE {}

KeysOf(patterns) ==
    {KeyOf(p).key : p \in {q \in patterns : KeyOf(q).tag = "Some"}}

\* Patterns of S with the same key keep the same key, or both lose it,
\* under every move.
CompatibleOn(S) ==
    LET after == [p \in S |-> [m \in FlatMoves |-> KeyOf(Moved(p, m))]]
        key == [p \in S |-> KeyOf(p)]
    IN  \A p \in S : \A q \in S : key[p] = key[q] => after[p] = after[q]

KeyCompatibleWithMoves == CompatibleOn(ValidReachable)

IndicesOfKey(key) == {i \in Indices : At(index_to_lookup_pattern, i) = key}

\* Pass 1 has just ended without a fault.
Pass1Ended == pc = "pass2" /\ move_application_table = <<>>

\* C5 as stated: when Pass 1 has ended every valid key of a full pattern
\* reachable by generator moves has exactly one index, and there are as many
\* indices as such keys.
C5_Original ==
    Pass1Ended =>
        LET keys == KeysOf(Reachable) IN
        /\ \A key \in keys : Cardinality(IndicesOfKey(key)) = 1
        /\ Size = Cardinality(keys)

\* C5 amended: when the key is compatible with the moves, every valid key of
\* a full pattern reachable along valid patterns only has exactly one index
\* when Pass 1 has ended, and there are as many indices as such keys.
C5_CompleteWithinPhase ==
    Pass1Ended =>
        LET within == ValidReachable
            keys == KeysOf(within)
        IN  CompatibleOn(within) =>
                /\ \A key \in keys : Cardinality(IndicesOfKey(key)) = 1
                /\ Size = Cardinality(keys)

\* Pass 1 has ended on a compatible key, the default pattern has its index,
\* and some valid key is reachable only through an invalid pattern.
C5_Witness ==
    /\ Pass1Ended
    /\ KeyCompatibleWithMoves
    /\ Size >= 1
    /\ KeysOf(Reachable) # KeysOf(ValidReachable)

\* ------------------------------------------------------------------- C6
\* C6: in the finished table the reverse map sends the key stored at every
\* index back to that index, and has one entry per index.
C6_ReverseLookupInverse ==
    Finished =>
        /\ \A i \in Indices :
              /\ At(index_to_lookup_pattern, i) \in DOMAIN lookup_pattern_to_index
              /\ lookup_pattern_to_index[At(index_to_lookup_pattern, i)] = i
        /\ Cardinality(DOMAIN lookup_pattern_to_index) = Size

\* A finished table with three indices or more.
C6_Witness == Finished /\ Size >= 3

\* ------------------------------------------------------------------- C7
\* C7: when the default pattern is valid, every move m whose result on the
\* default pattern is valid has apply_move(0, m) equal to the index the
\* reverse map gives for the key of the default pattern with m applied.
C7_MovesFromDefault ==
    (Finished /\ KeyOf(default_pattern).tag = "Some") =>
        \A m \in FlatMoves :
            LET r == KeyOf(Moved(default_pattern, m)) IN
            r.tag = "Some" =>
                /\ r.key \in DOMAIN lookup_pattern_to_index
                /\ apply_move(PhaseLookupTable, 0, m) =
                       Some(lookup_pattern_to_index[r.key])

\* A finished table where a move takes index 0 to another index.
C7_Witness ==
    /\ Finished
    /\ KeyOf(default_pattern).tag = "Some"
    /\ \E m \in FlatMoves :
          /\ KeyOf(Moved(default_pattern, m)).tag = "Some"
          /\ apply_move(PhaseLookupTable, 0, m).some
          /\ apply_move(PhaseLookupTable, 0, m).value # 0

C9_DepthsNonDecreasing ==
    \A i \in Indices : \A j \in Indices :
        i < j => At(exact_prune_table, i) <= At(exact_prune_table, j)

\* Pass 1 is under way with indices at two different depths.
C9_Witness ==
    /\ pc = "pass1"
    /\ fringe # <<>>
    /\ \E i \in Indices : \E j \in Indices :
          i < j /\ At(exact_prune_table, i) < At(exact_prune_table, j)

\* ------------------------------------------------------------------ C10
\* Two Pass 1 iterations met full patterns with one masked pattern and
\* different parities.
SameMaskOtherParity(a, b) ==
    /\ mask(popped[a].pattern, phase_mask).pattern =
           mask(popped[b].pattern, phase_mask).pattern
    /\ wedge_parity(upper_wedges, popped[a].pattern) #
           wedge_parity(upper_wedges, popped[b].pattern)

\* C10: the key stored for the full pattern that was last given an index
\* carries the parity of that full pattern, and the full pattern met last in
\* Pass 1 never resolves to the index of an earlier one that has its masked
\* pattern and another parity (every pattern met is, at some point, the last
\* one).
C10_ParityKeepsStatesApart ==
    Len(popped) \in Keyed =>
        LET last == popped[Len(popped)] IN
        /\ last.outcome = "assigned" =>
              At(index_to_lookup_pattern, last.index.value).parity =
                  wedge_parity(upper_wedges, last.pattern)
        /\ \A b \in Keyed :
              SameMaskOtherParity(Len(popped), b) => last.index # popped[b].index

\* Two full patterns with one masked pattern and different parities have
\* been met and have different indices.
C10_Witness ==
    /\ Len(popped) \in Keyed
    /\ \E b \in Keyed :
          /\ SameMaskOtherParity(Len(popped), b)
          /\ popped[Len(popped)].index # popped[b].index

\* ------------------------------------------------------------------ C11
\* Masking fails on a full pattern.
MaskFails(pattern) == ~mask(pattern, phase_mask).ok

\* C11: the full pattern met last in Pass 1 is logged as a panic exactly
\* when its masking fails, and as invalid exactly when masking succeeds and
\* the checker rejects the masked pattern (every pattern met is, at some
\* point, the last one).  A panic is the last thing Pass 1 logs: the build
\* has stopped there with the fault, with no index for the pattern and no
\* row, and a build stopped with that fault has logged it.  No entry of a
\* returned table stands for a pattern whose masking fails.
C11_MaskFailureIsFatal ==
    /\ popped # <<>> =>
          LET last == popped[Len(popped)] IN
          /\ MaskFails(last.pattern) <=> last.outcome = "panic"
          /\ last.outcome = "invalid" <=>
                /\ ~MaskFails(last.pattern)
                /\ ~is_valid(checker, mask(last.pattern, phase_mask).pattern)
    /\ \A n \in 1..Len(popped) :
          popped[n].outcome = "panic" =>
              /\ pc = "panic_mask"
              /\ n = Len(popped)
              /\ ~popped[n].index.some
              /\ move_application_table = <<>>
    /\ pc = "panic_mask" =>
          \E n \in 1..Len(popped) : popped[n].outcome = "panic"
    /\ Finished =>
          \A i \in Indices : \A m \in FlatMoves :
              ~MaskFails(Moved(Representative(i), m))

\* The build has stopped with "Mask application failed".
C11_Witness ==
    /\ pc = "panic_mask"
    /\ popped # <<>>
    /\ popped[Len(popped)].outcome = "panic"

ForwardLookup(pattern) ==
    LET r == KeyOf(pattern) IN
    IF r.tag = "Some" THEN get(lookup_pattern_to_index, r.key) ELSE None

\* The reachable full patterns whose key has an index.
LivePatterns == {p \in Reachable : ForwardLookup(p).some}

\* C13 as stated: in the finished table, for every reachable full pattern p
\* whose key has index i and every move m, apply_move(i, m) is the forward
\* lookup of p with m applied.
C13_Original ==
    Finished =>
        \A p \in LivePatterns : \A m \in FlatMoves :
            apply_move(PhaseLookupTable, ForwardLookup(p).value, m) =
                ForwardLookup(Moved(p, m))

\* C13 amended: the same, provided the reachable full patterns whose keys
\* have an index and are equal keep equal keys, or both lose theirs, under
\* every move.
C13_LivePatternsFollowTheTable ==
    Finished =>
        LET live == LivePatterns IN
        CompatibleOn(live) =>
            \A p \in live : \A m \in FlatMoves :
                apply_move(PhaseLookupTable, ForwardLookup(p).value, m) =
                    ForwardLookup(Moved(p, m))

\* A finished table on a compatible key, and a live pattern that is not the
\* representative of its index and that some move takes to another index.
C13_Witness ==
    /\ Finished
    /\ CompatibleOn(LivePatterns)
    /\ \E p \in LivePatterns :
          /\ p # Representative(ForwardLookup(p).value)
          /\ \E m \in FlatMoves :
                /\ ForwardLookup(Moved(p, m)).some
                /\ ForwardLookup(Moved(p, m)) # ForwardLookup(p)

\* ------------------------------------------------------------------ C14
\* The depth of the k-th node of the frontier, from the head.
FringeDepth(k) == fringe[k][2]

\* C14: the depths of the frontier are non-decreasing from head to tail and
\* the tail is at most one deeper than the head; a node just discarded for
\* its key having an index is no shallower than the depth recorded for it.
C14_FrontierOrderedByDepth ==
    /\ \A k \in 1..(Len(fringe) - 1) : FringeDepth(k) <= FringeDepth(k + 1)
    /\ fringe # <<>> => FringeDepth(Len(fringe)) <= FringeDepth(1) + 1
    /\ (popped # <<>> /\ popped[Len(popped)].outcome = "duplicate") =>
          At(exact_prune_table, popped[Len(popped)].index.value) <=
              popped[Len(popped)].depth

\* Pass 1 holds a frontier of two depths right after it discarded a node
\* deeper than the depth recorded for its key.
C14_Witness ==
    /\ pc = "pass1"
    /\ fringe # <<>>
    /\ FringeDepth(Len(fringe)) = FringeDepth(1) + 1
    /\ popped # <<>>
    /\ popped[Len(popped)].outcome = "duplicate"
    /\ At(exact_prune_table, popped[Len(popped)].index.value) <
           popped[Len(popped)].depth

\* ------------------------------------------------------------------ C15
\* Every stored key is accepted by the checker.
StoredKeysValid ==
    \A i \in Indices :
        is_valid(checker, At(index_to_lookup_pattern, i).masked_pattern)

\* The checker rejects the masked form of a full pattern.
Rejected(pattern) ==
    /\ ~MaskFails(pattern)
    /\ ~is_valid(checker, mask(pattern, phase_mask).pattern)

\* C15: in every step of Pass 1 a popped node the checker rejects gets no
\* index and pushes nothing, a step that pushes anything has assigned one
\* new index, and every stored key is accepted by the checker.
C15_InvalidNeverIndexedNorExpanded ==
    [][(pc = "pass1" /\ fringe # <<>>) =>
          /\ Rejected(Head(fringe)[1]) =>
                /\ fringe' = Tail(fringe)
                /\ UNCHANGED tables
          /\ Len(fringe') > Len(fringe) - 1 =>
                Len(index_to_lookup_pattern') = Len(index_to_lookup_pattern) + 1
          /\ StoredKeysValid']_vars

\* Pass 1 has just discarded a node the checker rejects, with an index
\* assigned before and nodes still waiting.
C15_Witness ==
    /\ pc = "pass1"
    /\ fringe # <<>>
    /\ Size >= 1
    /\ popped # <<>>
    /\ popped[Len(popped)].outcome = "invalid"
    /\ Rejected(popped[Len(popped)].pattern)

\* ------------------------------------------------------------------ C16
\* The Pass 1 iterations that gave their node an index and expanded it.
Expanded == {n \in 1..Len(popped) : popped[n].outcome = "assigned"}

\* Everything pushed so far has been popped or still waits: the seed and one
\* node per index and move.
PushesAccounted ==
    /\ Cardinality(Expanded) = Size
    /\ Len(popped) + Len(fringe) = 1 + Size * Len(generators)

\* C16: each index stands for one expansion, the frontier has received
\* exactly 1 + N*M nodes for N indices and M moves, and Pass 1 always comes
\* to its end.
C16_Pass1Terminates ==
    /\ []PushesAccounted
    /\ (pc = "pass1") ~> (pc # "pass1")

\* Pass 1 has ended with fewer indices than reachable full patterns, after
\* 1 + N*M pops.
C16_Witness ==
    /\ Pass1Ended
    /\ Size >= 2
    /\ Cardinality(Reachable) > Size
    /\ Len(popped) = 1 + Size * Len(generators)

\* ------------------------------------------------------------------ C17
\* The first Pass 1 iteration that met a full pattern with the key of the
\* full pattern iteration n met.
FirstWithKeyOf(n) ==
    LET key == KeyOf(popped[n].pattern)
        same == {k \in Keyed : KeyOf(popped[k].pattern) = key}
    IN  CHOOSE k \in same : \A o \in same : k <= o

\* C17: while Pass 1 runs the key list, the reverse map, the depth list and
\* the representative list have one length; the full pattern met last, if
\* its key is valid, resolves to the index whose representative is the first
\* full pattern met with that key, and the key of that representative is the
\* key stored at the index (every pattern met is, at some point, the last
\* one).
C17_RepresentativeIsFirstMet ==
    /\ pc = "pass1" =>
          /\ Cardinality(DOMAIN lookup_pattern_to_index) = Size
          /\ Len(exact_prune_table) = Size
          /\ Len(index_to_representative_full_pattern) = Size
    /\ Len(popped) \in Keyed =>
          LET last == popped[Len(popped)]
              first == popped[FirstWithKeyOf(Len(popped))]
          IN  /\ first.outcome = "assigned"
              /\ last.index = first.index
              /\ first.index.value \in Indices
              /\ Representative(first.index.value) = first.pattern
              /\ KeyOf(first.pattern).key =
                     At(index_to_lookup_pattern, first.index.value)

\* Pass 1 has just met a full pattern whose key has an index and whose
\* representative is another full pattern.
C17_Witness ==
    /\ pc = "pass1"
    /\ Len(popped) \in Keyed
    /\ popped[Len(popped)].outcome = "duplicate"
    /\ Representative(popped[Len(popped)].index.value) #
           popped[Len(popped)].pattern

\* ------------------------------------------------------------------ C18
\* C18: the finished table has one row per index and every row one entry
\* per flat move index, the m-th entry being the one of the m-th generator;
\* every non-absent entry is an index of the table.
C18_TableShape ==
    Finished =>
        /\ Len(move_application_table) = Size
        /\ \A i \in Indices :
              /\ Len(At(move_application_table, i)) = Len(generators)
              /\ \A m \in FlatMoves :
                    LET entry == apply_move(PhaseLookupTable, i, m) IN
                    /\ entry = RowEntry(Representative(i),
                                        At(generators, m)).entry
                    /\ entry.some => entry.value \in Indices

\* A finished table of three rows or more and two moves or more whose last
\* index is the target of an entry of another row.
C18_Witness ==
    /\ Finished
    /\ Size >= 3
    /\ Len(generators) >= 2
    /\ \E i \in Indices : \E m \in FlatMoves :
          /\ i # Size - 1
          /\ apply_move(PhaseLookupTable, i, m) = Some(Size - 1)
====
